---- MODULE Spec2Model ----
(***************************************************************************)
(* uclampset (schedutils/uclampset.c): show or change the utilization      *)
(* clamping attributes of a task, of all threads of a task, or of the      *)
(* system.  The model follows main() statement by statement.  The kernel   *)
(* (task attribute table, the two sysctl files), the C library streams     *)
(* and the command line are the environment.                               *)
(*                                                                         *)
(* 32-bit values are kept as their two's complement bit pattern read as a  *)
(* signed integer: this is exactly what "%d" prints for an unsigned int,   *)
(* and unsigned comparisons are the operators ULt/ULe below.               *)
(*                                                                         *)
(* Not modelled: the options -m, -h, -V (they print and exit before any    *)
(* state is touched) and proc_pid_name (display only).                     *)
(***************************************************************************)
EXTENDS Integers, Sequences, FiniteSets, TLC

\* ------------------------------------------------------------------ bounds

\* Largest number of positional arguments on the command line.
MaxArgs == 3
\* Number of threads of the multi-threaded target process.
MaxThreads == 2

\* ------------------------------------------------------- text and numbers

DigitChars == <<"0", "1", "2", "3", "4", "5", "6", "7", "8", "9">>
Digits == {DigitChars[i] : i \in 1..10}
DigitVal(c) == (CHOOSE i \in 1..10 : DigitChars[i] = c) - 1

\* The byte '\0'.
NUL == "NUL"

\* Unsigned comparison of two 32-bit patterns held as signed integers.
ULt(a, b) == IF (a < 0) = (b < 0) THEN a < b ELSE b < 0
ULe(a, b) == a = b \/ ULt(a, b)

RECURSIVE NatToStr(_)
NatToStr(n) ==
    IF n < 10 THEN <<DigitChars[n + 1]>>
    ELSE NatToStr(n \div 10) \o <<DigitChars[(n % 10) + 1]>>

\* printf("%d", n)
FmtD(n) == IF n < 0 THEN <<"-">> \o NatToStr(0 - n) ELSE NatToStr(n)

RECURSIVE DigitsVal(_)
DigitsVal(s) ==
    IF s = <<>> THEN 0
    ELSE 10 * DigitsVal(SubSeq(s, 1, Len(s) - 1)) + DigitVal(s[Len(s)])

\* strtos32_or_err: the whole string must be a decimal number with an
\* optional sign; anything else is a fatal error.
StrIsS32(s) ==
    LET d == IF s # <<>> /\ s[1] = "-" THEN 2 ELSE 1
    IN  /\ Len(s) >= d
        /\ \A i \in d..Len(s) : s[i] \in Digits
StrToS32(s) ==
    IF s[1] = "-" THEN 0 - DigitsVal(SubSeq(s, 2, Len(s))) ELSE DigitsVal(s)

\* ------------------------------------------------------------ command line

Tok0 == <<"0">>
Tok512 == <<"5", "1", "2">>
Tok1024 == <<"1", "0", "2", "4">>
TokNeg1 == <<"-", "1">>
TokLs == <<"l", "s">>
Tokens == {Tok0, Tok512, Tok1024, TokNeg1, TokLs}

\* The positional arguments argv[optind..argc-1].
PosArgs == UNION {[1..n -> Tokens] : n \in 0..MaxArgs}
\* The options given: a (all-tasks), p (pid), s (system), v (verbose).
OptSets == [a : BOOLEAN, p : BOOLEAN, s : BOOLEAN, v : BOOLEAN]

\* --------------------------------------------------------------- the tasks

\* getpid() of the running uclampset.
SelfPid == 7
\* The pid of the multi-threaded process that exists beside uclampset.
ProcPid == 512
Threads(pid) ==
    IF pid = ProcPid THEN [i \in 1..MaxThreads |-> ProcPid + i - 1]
    ELSE IF pid = SelfPid THEN <<SelfPid>>
    ELSE <<>>
Tids == {SelfPid} \cup {ProcPid + i - 1 : i \in 1..MaxThreads}

\* The kernel reads pid 0 as the calling task.
Resolve(pid) == IF pid = 0 THEN SelfPid ELSE pid
TaskExists(pid) == Resolve(pid) \in Tids

\* util_min and util_max of a task must be in [0:1024].
SCHED_CAPACITY_SCALE == 1024

InitPairs == {[min |-> 0, max |-> 1024], [min |-> 512, max |-> 512]}
InitPolicy(t) == IF t = SelfPid THEN "SCHED_OTHER"
                 ELSE IF t = ProcPid THEN "SCHED_FIFO" ELSE "SCHED_RR"
InitPrio(t) == IF t = SelfPid THEN 0 ELSE t - ProcPid + 1

\* What sched_setattr makes of a task's attributes: the KEEP flags keep the
\* policy and the parameters, the UTIL_CLAMP flags replace the bounds.
KernelApply(old, sa) ==
    [policy   |-> IF "KEEP_POLICY" \in sa.flags THEN old.policy ELSE sa.policy,
     prio     |-> IF "KEEP_PARAMS" \in sa.flags THEN old.prio ELSE sa.prio,
     util_min |-> IF "UTIL_CLAMP_MIN" \in sa.flags THEN sa.util_min
                  ELSE old.util_min,
     util_max |-> IF "UTIL_CLAMP_MAX" \in sa.flags THEN sa.util_max
                  ELSE old.util_max]
\* The kernel's validation of the resulting bounds (EINVAL otherwise).
KernelAttrValid(old, sa) ==
    LET new == KernelApply(old, sa)
    IN  /\ ULe(new.util_min, new.util_max)
        /\ ULe(new.util_max, SCHED_CAPACITY_SCALE)

\* --------------------------------------------------- the system clamp files

\* PROCFS(sched_util_clamp_min), PROCFS(sched_util_clamp_max): the files
\* opened.
PathMin == "/proc/sys/kernel/sched_util_clamp_min"
PathMax == "/proc/sys/kernel/sched_util_clamp_max"
\* PROCFS(sched_util_min), PROCFS(sched_util_max): the paths the error
\* messages print.
ErrPathMin == "/proc/sys/kernel/sched_util_min"
ErrPathMax == "/proc/sys/kernel/sched_util_max"

\* sizeof(min), sizeof(max)
BufSize == 16

Blank == {" ", "\t", "\n"}

RECURSIVE SkipBlank(_)
SkipBlank(b) == IF b # <<>> /\ b[1] \in Blank THEN SkipBlank(Tail(b)) ELSE b
RECURSIVE LeadDigits(_)
LeadDigits(b) ==
    IF b # <<>> /\ b[1] \in Digits THEN <<b[1]>> \o LeadDigits(Tail(b))
    ELSE <<>>

\* The kernel's parse of the bytes written to a clamp file: blanks, an
\* optional sign, digits, and then a blank or the end of the data.  What
\* follows the first number is not looked at.
KernelParse(buf) ==
    LET b    == SkipBlank(buf)
        neg  == b # <<>> /\ b[1] = "-"
        r    == IF neg THEN Tail(b) ELSE b
        ds   == LeadDigits(r)
        rest == SubSeq(r, Len(ds) + 1, Len(r))
    IN  [ok  |-> ds # <<>> /\ (rest = <<>> \/ rest[1] \in Blank),
         val |-> IF ds = <<>> THEN 0
                 ELSE IF neg THEN 0 - DigitsVal(ds) ELSE DigitsVal(ds)]

\* The kernel's answer to a write to a clamp file, given the pair stored:
\* util_min must be <= util_max, so a min above the stored max and a max
\* below the stored min are rejected and the stored pair stays as it is.
KernelSysWrite(sys, path, buf) ==
    LET v   == KernelParse(buf)
        new == IF path = PathMin THEN [sys EXCEPT !.min = v.val]
               ELSE [sys EXCEPT !.max = v.val]
        ok  == v.ok /\ ULe(new.min, new.max)
    IN  [ok |-> ok, sys |-> IF ok THEN new ELSE sys]

\* The content of a clamp file as the kernel presents it.
KernelSysRead(sys, path) ==
    FmtD(IF path = PathMin THEN sys.min ELSE sys.max) \o <<"\n">>

\* A stdio stream; the data written stays in buf until the stream is
\* flushed, and err is what ferror() answers.
Closed == [open |-> FALSE, mode |-> "", buf |-> <<>>, err |-> FALSE]
Opened(mode) == [open |-> TRUE, mode |-> mode, buf |-> <<>>, err |-> FALSE]

\* The bytes the uninitialised tail of min[16] and max[16] may hold.
Garbage == {NUL, "9"}

NoErr == [kind |-> "", id |-> 0, path |-> ""]
Err(kind, id, path) == [kind |-> kind, id |-> id, path |-> path]

\* ------------------------------------------------------------------- state

VARIABLES
    opts,       \* the options on the command line
    pos,        \* the positional arguments
    ctl,        \* struct uclampset
    pc,         \* the statement of main() to run next
    pass,       \* which of the two set_uclamp_system calls is running
    exit,       \* "running", "success", "failure" or "exec"
    errmsg,     \* the fatal error reported
    task,       \* kernel: the attributes of every task
    sysfile,    \* kernel: the system pair behind the two clamp files
    fp_min,     \* set_uclamp_system: its two streams
    fp_max,
    ts,         \* set_uclamp_pid: the thread ids proc_next_tid has yet to yield
    syscalls,   \* history: the sched_getattr and sched_setattr calls made
    flog,       \* history: the opens of, and writes to, the clamp files
    stdout,     \* what was printed
    command,    \* the argv[0] handed to execvp
    pre         \* history: the kernel state when the program started

vars == <<opts, pos, ctl, pc, pass, exit, errmsg, task, sysfile, fp_min,
          fp_max, ts, syscalls, flog, stdout, command, pre>>

\* struct uclampset _ctl = { .pid = -1 }
Ctl0 ==
    [util_min |-> 0, util_max |-> 0, pid |-> -1, all_tasks |-> FALSE,
     system |-> FALSE, verbose |-> FALSE]

Init ==
    /\ opts \in OptSets
    /\ pos \in PosArgs
    /\ ctl = Ctl0
    /\ pc = "getopt"
    /\ pass = 1
    /\ exit = "running"
    /\ errmsg = NoErr
    /\ \E p \in InitPairs :
          task = [t \in Tids |->
                    [policy |-> InitPolicy(t), prio |-> InitPrio(t),
                     util_min |-> p.min, util_max |-> p.max]]
    /\ \E p \in InitPairs : sysfile = p
    /\ fp_min = Closed
    /\ fp_max = Closed
    /\ ts = <<>>
    /\ syscalls = <<>>
    /\ flog = <<>>
    /\ stdout = <<>>
    /\ command = <<>>
    /\ pre = [task |-> task, sys |-> sysfile]

\* err(EXIT_FAILURE, ...), errtryhelp(EXIT_FAILURE): the run ends here.
Fatal(e) ==
    /\ pc' = "exited"
    /\ exit' = "failure"
    /\ errmsg' = e
\* return EXIT_SUCCESS
Return ==
    /\ pc' = "exited"
    /\ exit' = "success"
    /\ errmsg' = errmsg
Goto(l) ==
    /\ pc' = l
    /\ exit' = exit
    /\ errmsg' = errmsg

\* argc - optind
NArgs == Len(pos)

\* ----------------------------------------------------------------- display

\* What a show_* call did: the lines printed, the kernel calls and file
\* operations made, and the fatal error that ended it (ok = FALSE).
Shown(lines, calls, files) ==
    [ok |-> TRUE, out |-> lines, calls |-> calls, files |-> files,
     err |-> NoErr]
ShowFailed(lines, calls, files, e) ==
    [ok |-> FALSE, out |-> lines, calls |-> calls, files |-> files, err |-> e]

GetCall(by, pid, ok) ==
    [op |-> "get", by |-> by, pid |-> pid, ok |-> ok, flags |-> {},
     util_min |-> 0, util_max |-> 0]

\* The values of the request printed instead of those fetched.
ShowEchoesRequest(pid) ==
    LET p == IF pid = 0 THEN SelfPid ELSE pid
    IN  IF ~(Resolve(p) \in Tids)
        THEN ShowFailed(<<>>, <<GetCall("show", p, FALSE)>>, <<>>,
                        Err("failed to get pid", p, ""))
        ELSE Shown(<<[who |-> "pid", id |-> p,
                      min |-> FmtD(ctl.util_min),
                      max |-> FmtD(ctl.util_max)]>>,
                   <<GetCall("show", p, TRUE)>>, <<>>)

\* show_uclamp_pid_info: the bounds of one task, fetched and printed.
show_uclamp_pid_info(pid) ==
    LET p == IF pid = 0 THEN SelfPid ELSE pid
    IN  IF ~TaskExists(p)
        THEN ShowFailed(<<>>, <<GetCall("show", p, FALSE)>>, <<>>,
                        Err("failed to get pid", p, ""))
        ELSE Shown(<<[who |-> "pid", id |-> p,
                      min |-> FmtD(task[p].util_min),
                      max |-> FmtD(task[p].util_max)]>>,
                   <<GetCall("show", p, TRUE)>>, <<>>)

\* The files opened as set_uclamp_system opens them.
ShowOpenModeW == "w"

\* The mode show_uclamp_system_info opens the clamp files with.
ShowOpenMode == "r"

FileOp(op, path, mode, ok) ==
    [op |-> op, path |-> path, mode |-> mode, ok |-> ok]

\* fread() and min[size-1] = '\0': the text without its last byte.
StripLast(text) == SubSeq(text, 1, Len(text) - 1)

\* show_uclamp_system_info; fail is the fopen that fails, if one does.
show_uclamp_system_info(fail) ==
    IF fail = "min"
    THEN ShowFailed(<<>>, <<>>,
                    <<FileOp("open", PathMin, ShowOpenMode, FALSE)>>,
                    Err("cannot open", 0, ErrPathMin))
    ELSE IF fail = "max"
    THEN ShowFailed(<<>>, <<>>,
                    <<FileOp("open", PathMin, ShowOpenMode, TRUE),
                      FileOp("open", PathMax, ShowOpenMode, FALSE)>>,
                    Err("cannot open", 0, ErrPathMax))
    ELSE Shown(<<[who |-> "System", id |-> 0,
                  min |-> StripLast(KernelSysRead(sysfile, PathMin)),
                  max |-> StripLast(KernelSysRead(sysfile, PathMax))]>>,
               <<>>,
               <<FileOp("open", PathMin, ShowOpenMode, TRUE),
                 FileOp("open", PathMax, ShowOpenMode, TRUE)>>)

\* proc_open_tasks: NULL (FALSE here) when the pid has no /proc/<pid>/task.
proc_open_tasks(pid) == pid \in {ProcPid, SelfPid}

\* while (!proc_next_tid(ts, &tid)) show_uclamp_pid_info(tid);
RECURSIVE ShowTasks(_)
ShowTasks(tids) ==
    IF tids = <<>> THEN Shown(<<>>, <<>>, <<>>)
    ELSE LET one == show_uclamp_pid_info(Head(tids))
         IN  IF ~one.ok THEN one
             ELSE LET more == ShowTasks(Tail(tids))
                  IN  [ok |-> more.ok, out |-> one.out \o more.out,
                       calls |-> one.calls \o more.calls,
                       files |-> <<>>, err |-> more.err]

\* show_uclamp_info: the display for the scope of the request.
show_uclamp_info(c, fail) ==
    IF c.system THEN show_uclamp_system_info(fail)
    ELSE IF c.all_tasks
    THEN IF ~proc_open_tasks(c.pid)
         THEN ShowFailed(<<>>, <<>>, <<>>,
                         Err("cannot obtain the list of tasks", 0, ""))
         ELSE ShowTasks(Threads(c.pid))
    ELSE show_uclamp_pid_info(c.pid)

OpenFails == {"none", "min", "max"}

\* The effect of a show_uclamp_info call on the histories.
Display(r) ==
    /\ stdout' = stdout \o r.out
    /\ syscalls' = syscalls \o r.calls
    /\ flog' = flog \o r.files

\* -------------------------------------------------------------------- main

\* argv[argc - 1]; with no positional argument it is the last option word.
LastArg == IF pos = <<>> THEN <<"-", "p">> ELSE pos[Len(pos)]

\* The getopt_long loop.
GetOpt ==
    /\ pc = "getopt"
    /\ IF opts.p /\ ~StrIsS32(LastArg)
       THEN Fatal(Err("invalid PID argument", 0, "")) /\ ctl' = ctl
       ELSE IF pos # <<>> /\ pos[1][1] = "-"
       THEN \* getopt reads the word as an option it does not know
            Fatal(Err("invalid option", 0, "")) /\ ctl' = ctl
       ELSE /\ ctl' = [ctl EXCEPT
                         !.all_tasks = opts.a,
                         !.system = opts.s,
                         !.verbose = opts.v,
                         !.pid = IF opts.p THEN StrToS32(LastArg) ELSE -1]
            /\ Goto("usage")
    /\ UNCHANGED <<opts, pos, pass, task, sysfile, fp_min, fp_max, ts,
                   syscalls, flog, stdout, command, pre>>

\* if (((ctl->pid > -1) && argc - optind < 1) || ...) bad usage
BadUsage3(c, n) ==
    \/ c.pid > -1 /\ n < 1
    \/ c.pid = -1 /\ n < 2 /\ ~c.system

UsageCheck ==
    /\ pc = "usage"
    /\ IF BadUsage3(ctl, NArgs) THEN Fatal(Err("bad usage3", 0, ""))
       ELSE Goto("query_pid")
    /\ UNCHANGED <<opts, pos, ctl, pass, task, sysfile, fp_min, fp_max, ts,
                   syscalls, flog, stdout, command, pre>>

\* if ((ctl->pid > -1) && (ctl->verbose || argc - optind == 1))
QueryPid ==
    /\ pc = "query_pid"
    /\ IF ctl.pid > -1 /\ (ctl.verbose \/ NArgs = 1)
       THEN \E fail \in OpenFails :
              LET r == show_uclamp_info(ctl, fail)
              IN  /\ Display(r)
                  /\ IF ~r.ok THEN Fatal(r.err)
                     ELSE IF NArgs = 1 THEN Return
                     ELSE Goto("query_sys")
       ELSE /\ Goto("query_sys")
            /\ UNCHANGED <<stdout, syscalls, flog>>
    /\ UNCHANGED <<opts, pos, ctl, pass, task, sysfile, fp_min, fp_max, ts,
                   command, pre>>

\* if ((ctl->system) && (ctl->verbose || argc - optind < 2))
QuerySys ==
    /\ pc = "query_sys"
    /\ IF ctl.system /\ (ctl.verbose \/ NArgs < 2)
       THEN \E fail \in OpenFails :
              LET r == show_uclamp_info(ctl, fail)
              IN  /\ Display(r)
                  /\ IF ~r.ok THEN Fatal(r.err)
                     ELSE IF NArgs < 2 THEN Return
                     ELSE Goto("values")
       ELSE /\ Goto("values")
            /\ UNCHANGED <<stdout, syscalls, flog>>
    /\ UNCHANGED <<opts, pos, ctl, pass, task, sysfile, fp_min, fp_max, ts,
                   command, pre>>

\* The test with argc - optind >= 2 in place of >= 3.
HasValuesLoose(c, n) == (c.system /\ n = 2) \/ n >= 2

\* if ((ctl->system && argc - optind == 2) || (argc - optind >= 3))
HasValues(c, n) == (c.system /\ n = 2) \/ n >= 3

\* if (ctl->pid == -1) ctl->pid = 0; and the parse of util_min, util_max.
ParseValues ==
    /\ pc = "values"
    /\ LET pid == IF ctl.pid = -1 THEN 0 ELSE ctl.pid
       IN  IF ~HasValues(ctl, NArgs)
           THEN /\ Fatal(Err("bad usage", 0, ""))
                /\ ctl' = [ctl EXCEPT !.pid = pid]
                /\ stdout' = stdout
           ELSE IF ~StrIsS32(pos[1])
           THEN /\ Fatal(Err("invalid util_min argument", 0, ""))
                /\ ctl' = [ctl EXCEPT !.pid = pid]
                /\ stdout' = stdout
           ELSE IF ~StrIsS32(pos[2])
           THEN /\ Fatal(Err("invalid util_max argument", 0, ""))
                /\ ctl' = [ctl EXCEPT !.pid = pid,
                                      !.util_min = StrToS32(pos[1])]
                /\ stdout' = stdout
           ELSE /\ ctl' = [ctl EXCEPT !.pid = pid,
                                      !.util_min = StrToS32(pos[1]),
                                      !.util_max = StrToS32(pos[2])]
                /\ stdout' = stdout \o
                     <<[who |-> "Setting", id |-> 0,
                        min |-> FmtD(StrToS32(pos[1])),
                        max |-> FmtD(StrToS32(pos[2]))]>>
                /\ Goto(IF ctl.system THEN "sys_check" ELSE "set_pid")
    /\ UNCHANGED <<opts, pos, pass, task, sysfile, fp_min, fp_max, ts,
                   syscalls, flog, command, pre>>

\* ------------------------------------------------------- set_uclamp_system

\* The check left out.
NeverExceeds(c) == FALSE

\* if (ctl->util_min > ctl->util_max), on unsigned int
MinExceedsMax(c) == ULt(c.util_max, c.util_min)

\* set_uclamp_system(ctl); set_uclamp_system(ctl);
NumPasses == 2

\* main calls set_uclamp_system once only.
FirstPassIsLast(p) == TRUE

\* Whether the call that returns is main's last call of set_uclamp_system.
LastPass(p) == p >= NumPasses

\* snprintf(min, sizeof(min), "%d", v); min[size] = '\n'; min[size+1] = '\0';
\* the sizeof(min) bytes that fwrite hands over, the tail never initialised.
WriteBuf(v, g) ==
    LET t == FmtD(v) \o <<"\n", NUL>>
    IN  t \o [i \in 1..(BufSize - Len(t)) |-> g]

\* fclose: the buffered data, if any, goes to the kernel in one write; the
\* result of fclose is not looked at.
Flush(fp, path, sys) ==
    IF fp.open /\ fp.buf # <<>>
    THEN LET r == KernelSysWrite(sys, path, fp.buf)
         IN  [sys |-> r.sys, files |-> <<FileOp("write", path, fp.mode, r.ok)>>]
    ELSE [sys |-> sys, files |-> <<>>]

SysCheck ==
    /\ pc = "sys_check"
    /\ IF MinExceedsMax(ctl)
       THEN Fatal(Err("util_min must be <= util_max", 0, ""))
       ELSE Goto("sys_open_min")
    /\ UNCHANGED <<opts, pos, ctl, pass, task, sysfile, fp_min, fp_max, ts,
                   syscalls, flog, stdout, command, pre>>

\* fp_min = fopen(PROCFS(sched_util_clamp_min), "w");
SysOpenMin ==
    /\ pc = "sys_open_min"
    /\ \E ok \in BOOLEAN :
         /\ flog' = flog \o <<FileOp("open", PathMin, "w", ok)>>
         /\ IF ok THEN fp_min' = Opened("w") /\ Goto("sys_open_max")
            ELSE fp_min' = fp_min /\ Fatal(Err("cannot open", 0, ErrPathMin))
    /\ UNCHANGED <<opts, pos, ctl, pass, task, sysfile, fp_max, ts, syscalls,
                   stdout, command, pre>>

\* fp_max = fopen(PROCFS(sched_util_clamp_max), "w");
SysOpenMax ==
    /\ pc = "sys_open_max"
    /\ \E ok \in BOOLEAN :
         IF ok
         THEN /\ flog' = flog \o <<FileOp("open", PathMax, "w", TRUE)>>
              /\ fp_max' = Opened("w")
              /\ UNCHANGED <<fp_min, sysfile>>
              /\ Goto("sys_fwrite")
         ELSE LET f == Flush(fp_min, PathMin, sysfile)
              IN  /\ flog' = flog \o <<FileOp("open", PathMax, "w", FALSE)>>
                             \o f.files
                  /\ sysfile' = f.sys
                  /\ fp_min' = Closed
                  /\ fp_max' = fp_max
                  /\ Fatal(Err("cannot open", 0, ErrPathMax))
    /\ UNCHANGED <<opts, pos, ctl, pass, task, ts, syscalls, stdout, command,
                   pre>>

\* fwrite with the stream set to write through (no buffer): the bytes go to
\* the kernel at once and a rejected write sets the stream's error flag.
FwriteUnbuffered(fp, path, sys, data) ==
    LET r == KernelSysWrite(sys, path, data)
    IN  [fp |-> [fp EXCEPT !.err = ~r.ok], sys |-> r.sys,
         files |-> <<FileOp("write", path, fp.mode, r.ok)>>]

\* fwrite(min, 1, sizeof(min), fp_min): the stream is a freshly opened file
\* stream, so the sizeof(min) bytes stay in its buffer and nothing reaches
\* the kernel yet.
Fwrite(fp, path, sys, data) ==
    [fp |-> [fp EXCEPT !.buf = @ \o data], sys |-> sys, files |-> <<>>]

\* The two fwrite calls.
SysFwrite ==
    /\ pc = "sys_fwrite"
    /\ \E g1 \in Garbage, g2 \in Garbage :
         LET w1 == Fwrite(fp_min, PathMin, sysfile,
                          WriteBuf(ctl.util_min, g1))
             w2 == Fwrite(fp_max, PathMax, w1.sys,
                          WriteBuf(ctl.util_max, g2))
         IN  /\ fp_min' = w1.fp
             /\ fp_max' = w2.fp
             /\ sysfile' = w2.sys
             /\ flog' = flog \o w1.files \o w2.files
    /\ Goto("sys_ferror")
    /\ UNCHANGED <<opts, pos, ctl, pass, task, ts, syscalls, stdout, command,
                   pre>>

\* if (ferror(fp_min)) ... if (ferror(fp_max)) ...
SysFerror ==
    /\ pc = "sys_ferror"
    /\ IF fp_min.err \/ fp_max.err
       THEN LET f1 == Flush(fp_min, PathMin, sysfile)
                f2 == Flush(fp_max, PathMax, f1.sys)
            IN  /\ flog' = flog \o f1.files \o f2.files
                /\ sysfile' = f2.sys
                /\ fp_min' = Closed
                /\ fp_max' = Closed
                /\ Fatal(Err("error writing", 0,
                             IF fp_min.err THEN ErrPathMin ELSE ErrPathMax))
       ELSE /\ Goto("sys_close_min")
            /\ UNCHANGED <<flog, sysfile, fp_min, fp_max>>
    /\ UNCHANGED <<opts, pos, ctl, pass, task, ts, syscalls, stdout, command,
                   pre>>

\* fclose(fp_min);
SysCloseMin ==
    /\ pc = "sys_close_min"
    /\ LET f == Flush(fp_min, PathMin, sysfile)
       IN  /\ flog' = flog \o f.files
           /\ sysfile' = f.sys
    /\ fp_min' = Closed
    /\ Goto("sys_close_max")
    /\ UNCHANGED <<opts, pos, ctl, pass, task, fp_max, ts, syscalls, stdout,
                   command, pre>>

\* fclose(fp_max); and the return to main, which calls a second time.
SysCloseMax ==
    /\ pc = "sys_close_max"
    /\ LET f == Flush(fp_max, PathMax, sysfile)
       IN  /\ flog' = flog \o f.files
           /\ sysfile' = f.sys
    /\ fp_max' = Closed
    /\ IF LastPass(pass)
       THEN pass' = pass /\ Goto("echo")
       ELSE pass' = pass + 1 /\ Goto("sys_check")
    /\ UNCHANGED <<opts, pos, ctl, task, fp_min, ts, syscalls, stdout,
                   command, pre>>

\* ---------------------------------------------------------- set_uclamp_pid

\* SCHED_FLAG_KEEP_POLICY | SCHED_FLAG_KEEP_PARAMS |
\* SCHED_FLAG_UTIL_CLAMP_MIN | SCHED_FLAG_UTIL_CLAMP_MAX
SetFlags == {"KEEP_POLICY", "KEEP_PARAMS", "UTIL_CLAMP_MIN", "UTIL_CLAMP_MAX"}

\* The attributes fetched for ctl->pid instead of the pid given.
GetTargetCtlPid(c, pid) == c.pid

\* The task whose attributes set_uclamp_one fetches.
GetTarget(c, pid) == pid

\* SCHED_FLAG_UTIL_CLAMP_MAX left out of sa.sched_flags.
BuildAttrMinOnly(base, c) ==
    [policy |-> base.policy, prio |-> base.prio,
     util_min |-> c.util_min, util_max |-> c.util_max,
     flags |-> {"KEEP_POLICY", "KEEP_PARAMS", "UTIL_CLAMP_MIN"}]

\* sa.sched_util_min = ...; sa.sched_util_max = ...; sa.sched_flags = ...
BuildAttr(base, c) ==
    [policy |-> base.policy, prio |-> base.prio,
     util_min |-> c.util_min, util_max |-> c.util_max, flags |-> SetFlags]

\* set_uclamp_one; denied: the kernel refuses the sched_setattr (EPERM).
set_uclamp_one(c, pid, denied) ==
    LET g == GetTarget(c, pid)
    IN  IF ~TaskExists(g)
        THEN [fatal |-> TRUE, rc |-> -1, task |-> task,
              calls |-> <<GetCall("set", g, FALSE)>>,
              err |-> Err("failed to get pid", pid, "")]
        ELSE LET sa == BuildAttr(task[Resolve(g)], c)
                 ok == /\ ~denied
                       /\ TaskExists(pid)
                       /\ KernelAttrValid(task[Resolve(pid)], sa)
             IN  [fatal |-> FALSE, rc |-> IF ok THEN 0 ELSE -1,
                  task |-> IF ok
                           THEN [task EXCEPT ![Resolve(pid)] =
                                   KernelApply(task[Resolve(pid)], sa)]
                           ELSE task,
                  calls |-> <<GetCall("set", g, TRUE),
                              [op |-> "set", by |-> "set", pid |-> pid,
                               ok |-> ok, flags |-> sa.flags,
                               util_min |-> sa.util_min,
                               util_max |-> sa.util_max]>>,
                  err |-> NoErr]

\* The result of set_uclamp_one not looked at.
SetNeverFailed(rc) == FALSE

\* if (set_uclamp_one(ctl, tid) == -1) err(...)
SetFailed(rc) == rc = -1

\* set_uclamp_pid up to its loop, or its single set_uclamp_one.
SetPid ==
    /\ pc = "set_pid"
    /\ IF ctl.all_tasks
       THEN /\ IF proc_open_tasks(ctl.pid)
               THEN ts' = Threads(ctl.pid) /\ Goto("set_next")
               ELSE /\ ts' = ts
                    /\ Fatal(Err("cannot obtain the list of tasks", 0, ""))
            /\ UNCHANGED <<task, syscalls>>
       ELSE /\ \E denied \in BOOLEAN :
                 LET r == set_uclamp_one(ctl, ctl.pid, denied)
                 IN  /\ task' = r.task
                     /\ syscalls' = syscalls \o r.calls
                     /\ IF r.fatal THEN Fatal(r.err)
                        ELSE IF SetFailed(r.rc)
                        THEN Fatal(Err("failed to set pid", ctl.pid, ""))
                        ELSE Goto("echo")
            /\ ts' = ts
    /\ UNCHANGED <<opts, pos, ctl, pass, sysfile, fp_min, fp_max, flog,
                   stdout, command, pre>>

\* One turn of while (!proc_next_tid(ts, &tid)).
SetNextTid ==
    /\ pc = "set_next"
    /\ ts # <<>>
    /\ \E denied \in BOOLEAN :
         LET tid == Head(ts)
             r   == set_uclamp_one(ctl, tid, denied)
         IN  /\ task' = r.task
             /\ syscalls' = syscalls \o r.calls
             /\ IF r.fatal THEN Fatal(r.err) /\ ts' = ts
                ELSE IF SetFailed(r.rc)
                THEN Fatal(Err("failed to set tid", tid, "")) /\ ts' = ts
                ELSE Goto("set_next") /\ ts' = Tail(ts)
    /\ UNCHANGED <<opts, pos, ctl, pass, sysfile, fp_min, fp_max, flog,
                   stdout, command, pre>>

\* The loop's end and proc_close_tasks(ts).
SetClose ==
    /\ pc = "set_next"
    /\ ts = <<>>
    /\ Goto("echo")
    /\ UNCHANGED <<opts, pos, ctl, pass, task, sysfile, fp_min, fp_max, ts,
                   syscalls, flog, stdout, command, pre>>

\* ------------------------------------------------------- the end of main()

\* if (ctl->verbose) show_uclamp_info(ctl);
Echo ==
    /\ pc = "echo"
    /\ IF ctl.verbose
       THEN \E fail \in OpenFails :
              LET r == show_uclamp_info(ctl, fail)
              IN  /\ Display(r)
                  /\ IF ~r.ok THEN Fatal(r.err) ELSE Goto("exec")
       ELSE /\ Goto("exec")
            /\ UNCHANGED <<stdout, syscalls, flog>>
    /\ UNCHANGED <<opts, pos, ctl, pass, task, sysfile, fp_min, fp_max, ts,
                   command, pre>>

\* if (!ctl->pid && !ctl->system)
RunsCommand(c) == c.pid = 0 /\ ~c.system

\* argv += optind + 2; execvp(argv[0], argv); errexec(argv[0]);
\* or return EXIT_SUCCESS.
ExecOrReturn ==
    /\ pc = "exec"
    /\ IF RunsCommand(ctl)
       THEN /\ command' = pos[3]
            /\ \E ok \in BOOLEAN :
                 IF ok THEN pc' = "exited" /\ exit' = "exec" /\ errmsg' = errmsg
                 ELSE Fatal(Err("failed to execute", 0, ""))
       ELSE /\ command' = command
            /\ Return
    /\ UNCHANGED <<opts, pos, ctl, pass, task, sysfile, fp_min, fp_max, ts,
                   syscalls, flog, stdout, pre>>

Next ==
    \/ GetOpt
    \/ UsageCheck
    \/ QueryPid
    \/ QuerySys
    \/ ParseValues
    \/ SysCheck
    \/ SysOpenMin
    \/ SysOpenMax
    \/ SysFwrite
    \/ SysFerror
    \/ SysCloseMin
    \/ SysCloseMax
    \/ SetPid
    \/ SetNextTid
    \/ SetClose
    \/ Echo
    \/ ExecOrReturn

Spec == Init /\ [][Next]_vars

\* Something outside uclampset (another writer, the kernel) adjusts bounds
\* that uclampset has just written, after the last write and before the
\* verbose re-read.
OtherWriter ==
    /\ pc = "echo"
    /\ \E p \in InitPairs :
         \/ /\ sysfile = [min |-> ctl.util_min, max |-> ctl.util_max]
            /\ sysfile' = p
            /\ sysfile' # sysfile
            /\ task' = task
         \/ /\ \E t \in Tids :
                 /\ task[t].util_min = ctl.util_min
                 /\ task[t].util_max = ctl.util_max
                 /\ task' = [task EXCEPT ![t].util_min = p.min,
                                         ![t].util_max = p.max]
            /\ task' # task
            /\ sysfile' = sysfile
    /\ UNCHANGED <<opts, pos, ctl, pc, pass, exit, errmsg, fp_min, fp_max, ts,
                   syscalls, flog, stdout, command, pre>>

NextExt == Next \/ OtherWriter

\* uclampset on a machine where the stored bounds can change under it.
SpecExt == Init /\ [][NextExt]_vars

\* ---------------------------------------------------------------- the claims

\* The run has parsed a request to set (it printed "Setting util_min: ...").
SetRequested == \E i \in DOMAIN stdout : stdout[i].who = "Setting"
Request == [min |-> ctl.util_min, max |-> ctl.util_max]
\* Both calls of set_uclamp_system have returned.
PassesDone == pc \in {"echo", "exec"} \/ (pc = "exited" /\ exit = "success")
WriteOps == {i \in DOMAIN flog : flog[i].mode = "w"}
SetCalls == {i \in DOMAIN syscalls : syscalls[i].op = "set"}

\* C1: a system-scope request (min, max) with min <= max, whatever pair
\* with old_min <= old_max was stored, ends after the two min-then-max passes
\* with (min, max) stored, and the run fails only if a file cannot be opened.
C1_TwoPassReachesRequest ==
    (ctl.system /\ SetRequested /\ ULe(ctl.util_min, ctl.util_max)) =>
        /\ PassesDone => sysfile = Request
        /\ exit = "failure" => errmsg.kind = "cannot open"

\* C1 witness: {512,512} was stored, {1024,1024} was requested, the first
\* write of min was rejected by the kernel, and the run ended successfully
\* with {1024,1024} stored and read back.
C1_Witness ==
    /\ pc = "exited" /\ exit = "success" /\ ctl.system
    /\ pre.sys = [min |-> 512, max |-> 512]
    /\ sysfile = [min |-> 1024, max |-> 1024]
    /\ \E i \in WriteOps : flog[i].op = "write" /\ ~flog[i].ok
    /\ ctl.verbose
    /\ stdout[Len(stdout)] =
         [who |-> "System", id |-> 0, min |-> Tok1024, max |-> Tok1024]

\* C2: a system-scope request with util_min > util_max ends in the fatal
\* error "util_min must be <= util_max" with neither clamp file opened for
\* writing nor written, and the stored pair as it was.
C2_MinAboveMaxRejectedBeforeWrite ==
    (ctl.system /\ SetRequested /\ ULt(ctl.util_max, ctl.util_min)) =>
        /\ WriteOps = {}
        /\ sysfile = pre.sys
        /\ pc \in {"sys_check", "exited"}
        /\ pc = "exited" =>
             exit = "failure" /\ errmsg.kind = "util_min must be <= util_max"

\* C2 witness: a run ended by the local check.
C2_Witness ==
    /\ pc = "exited" /\ ctl.system /\ SetRequested
    /\ ULt(ctl.util_max, ctl.util_min)
    /\ errmsg.kind = "util_min must be <= util_max"

\* The run names an existing task with -p and gives one bound value only.
OneBoundForTask ==
    /\ opts.p /\ ~opts.s /\ ~opts.a /\ NArgs = 2
    /\ StrIsS32(pos[1]) /\ pos[1][1] # "-"
    /\ StrIsS32(pos[2]) /\ StrToS32(pos[2]) \in Tids

PureQuery ==
    \/ opts.p /\ NArgs = 1 /\ StrIsS32(pos[1]) /\ StrToS32(pos[1]) > -1
    \/ opts.s /\ NArgs < 2

\* C4: a pure query makes no sched_setattr call, opens neither clamp file
\* for writing, writes neither, and leaves the tasks' attributes and the
\* system pair as they were.
C4_QueryNeverWrites ==
    PureQuery =>
        /\ SetCalls = {}
        /\ WriteOps = {}
        /\ \A i \in DOMAIN flog : flog[i].op # "write"
        /\ task = pre.task
        /\ sysfile = pre.sys
        /\ command = <<>>

\* C4 witness: a pure query that displayed something and returned.
C4_Witness ==
    /\ PureQuery /\ pc = "exited" /\ exit = "success"
    /\ stdout # <<>>
    /\ flog # <<>>

IsSetLoopCall(e) == e.by = "set" /\ e.op = "set"

\* C5: under -a the threads are set one at a time in the order of the
\* enumeration; a failed set is the last call made: the run is over with a
\* failure that names that thread, the threads before it hold the requested
\* pair, the threads after it are as they were and were never fetched or
\* set by set_uclamp_pid.
C5_AllTasksStopsAtFirstFailure ==
    (ctl.all_tasks /\ ~ctl.system /\ SetRequested) =>
        LET T == Threads(ctl.pid)
            S == SelectSeq(syscalls, IsSetLoopCall)
        IN  /\ Len(S) <= Len(T)
            /\ \A j \in 1..Len(S) :
                 /\ S[j].pid = T[j]
                 /\ ~S[j].ok =>
                      /\ j = Len(S)
                      /\ syscalls[Len(syscalls)] = S[j]
                      /\ pc = "exited" /\ exit = "failure"
                      /\ errmsg = Err("failed to set tid", T[j], "")
                      /\ \A i \in 1..(j - 1) :
                           /\ task[T[i]].util_min = ctl.util_min
                           /\ task[T[i]].util_max = ctl.util_max
                      /\ \A i \in (j + 1)..Len(T) :
                           /\ task[T[i]] = pre.task[T[i]]
                           /\ \A n \in DOMAIN syscalls :
                                syscalls[n].by = "set" =>
                                    syscalls[n].pid # T[i]

\* C5 witness: the set of the second thread failed after the first thread
\* was changed.
C5_Witness ==
    /\ ctl.all_tasks /\ pc = "exited"
    /\ errmsg = Err("failed to set tid", ProcPid + 1, "")
    /\ task[ProcPid] # pre.task[ProcPid]
    /\ task[ProcPid].util_min = ctl.util_min

C7_ExecOnlyForDefaultTarget ==
    command # <<>> =>
        /\ ~opts.p /\ ~opts.s
        /\ task[SelfPid].util_min = ctl.util_min
        /\ task[SelfPid].util_max = ctl.util_max
        /\ pc = "exited" /\ exit \in {"exec", "failure"}

\* The tasks a process-scope request addresses.
Targets ==
    IF ctl.all_tasks THEN {Threads(ctl.pid)[i] : i \in DOMAIN Threads(ctl.pid)}
    ELSE {Resolve(ctl.pid)}

\* C8: once set_uclamp_pid has returned for a pair 0 <= min <= max <= 1024,
\* reading any addressed task back (show_uclamp_pid_info) prints exactly
\* min and max.
C8_ProcessRoundTrip ==
    (/\ ~ctl.system /\ SetRequested /\ pc \in {"echo", "exec"}
     /\ 0 <= ctl.util_min /\ ctl.util_min <= ctl.util_max
     /\ ctl.util_max <= SCHED_CAPACITY_SCALE) =>
        \A t \in Targets :
            LET r == show_uclamp_pid_info(t)
            IN  /\ r.ok
                /\ StrToS32(r.out[1].min) = ctl.util_min
                /\ StrToS32(r.out[1].max) = ctl.util_max

\* C8 witness: set_uclamp_pid has returned and changed a task.
C8_Witness ==
    /\ ~ctl.system /\ SetRequested /\ pc = "echo"
    /\ ctl.util_min <= ctl.util_max
    /\ task[Resolve(ctl.pid)] # pre.task[Resolve(ctl.pid)]

\* C9: every sched_setattr call follows directly a successful sched_getattr
\* of the same task made by set_uclamp_one, carries the keep-policy and
\* keep-params flags, and no task's policy or parameters ever change.
C9_FreshBaseKeepsPolicy ==
    /\ \A i \in SetCalls :
         /\ i > 1
         /\ syscalls[i - 1].op = "get" /\ syscalls[i - 1].by = "set"
         /\ syscalls[i - 1].pid = syscalls[i].pid
         /\ syscalls[i - 1].ok
         /\ {"KEEP_POLICY", "KEEP_PARAMS"} \subseteq syscalls[i].flags
    /\ \A t \in Tids :
         /\ task[t].policy = pre.task[t].policy
         /\ task[t].prio = pre.task[t].prio

\* C9 witness: a thread that is not SCHED_OTHER had its bounds changed.
C9_Witness ==
    \E i \in SetCalls :
        /\ syscalls[i].ok
        /\ syscalls[i].pid = ProcPid + 1
        /\ task[ProcPid + 1].util_max # pre.task[ProcPid + 1].util_max
        /\ task[ProcPid + 1].policy # "SCHED_OTHER"

\* What the kernel holds for the scope of the request, as display lines.
StoredLines ==
    LET line(t) == [who |-> "pid", id |-> t,
                    min |-> FmtD(task[t].util_min),
                    max |-> FmtD(task[t].util_max)]
    IN  IF ctl.system
        THEN <<[who |-> "System", id |-> 0,
                min |-> FmtD(sysfile.min), max |-> FmtD(sysfile.max)]>>
        ELSE IF ctl.all_tasks
        THEN [i \in DOMAIN Threads(ctl.pid) |-> line(Threads(ctl.pid)[i])]
        ELSE <<line(Resolve(ctl.pid))>>
\* The last lines printed, as many as the scope has.
EchoedLines ==
    SubSeq(stdout, Len(stdout) - Len(StoredLines) + 1, Len(stdout))

\* C10: in verbose mode the lines printed after the mutation are the stored
\* state as read after the last write, whether or not it is what was
\* requested.
C10_VerboseShowsStoredState ==
    (pc = "exec" /\ ctl.verbose /\ SetRequested) =>
        EchoedLines = StoredLines

\* C10 witness: the stored state differed from the request when it was
\* re-read, and what was printed is not the request.
C10_Witness ==
    /\ pc = "exec" /\ ctl.verbose /\ SetRequested
    /\ \E i \in DOMAIN EchoedLines :
         \/ EchoedLines[i].min # FmtD(ctl.util_min)
         \/ EchoedLines[i].max # FmtD(ctl.util_max)
====
